---- MODULE Spec2Model ----
(***************************************************************************)
(* A model of the finance scripts: calculate_price_movement and            *)
(* analyze_stock_earnings of calc_earnings.py, and bubble_sort and         *)
(* quick_sort of sort.py.                                                  *)
(*                                                                         *)
(* Representation.                                                         *)
(*  - A timestamp is an integer number of ticks, TicksPerDay ticks to a    *)
(*    calendar day; tick 0 is midnight of day 0.  The calendar day of a    *)
(*    timestamp t is t \div TicksPerDay.  Day 0 is a Thursday.             *)
(*  - A price is an integer number of 1/100 cent (1.00 is 10000), so that  *)
(*    round(price, 2) is a real conversion; a rounded price is an integer  *)
(*    number of cents.  A percentage is a Float: finite values are an      *)
(*    integer number of 1/100 percent, and the IEEE results of a division  *)
(*    by zero (inf, -inf, nan) are values of their own, as numpy.float64   *)
(*    produces them.  Arithmetic is exact; round() rounds half to even.    *)
(*  - stock_data is the DataFrame: its index (the trading timestamps and   *)
(*    whether they carry a timezone) and its rows (High, Low, Close; the   *)
(*    code reads no other column).                                         *)
(***************************************************************************)
EXTENDS Integers, Sequences, FiniteSets, TLC

VARIABLES
    stock_data,       \* the DataFrame handed to calculate_price_movement
    earnings_date,    \* the parameter / local of calculate_price_movement
    days_after,       \* the parameter days_after
    available_dates,  \* local of calculate_price_movement
    pre_dates,        \* local of calculate_price_movement
    post_dates,       \* local of calculate_price_movement
    result,           \* value returned by calculate_price_movement
    pc,               \* position inside calculate_price_movement
    event_in,         \* history: earnings_date as it was passed in
    earnings_dates,   \* analyze_stock_earnings: list of event timestamps
    results,          \* analyze_stock_earnings: the list `results`
    pos,              \* analyze_stock_earnings: iterations of the loop done
    ret,              \* analyze_stock_earnings: returned value
    apc,              \* position inside analyze_stock_earnings
    data,             \* sort.py: the list as passed to bubble_sort
    arr,              \* bubble_sort: the list being sorted in place
    i,                \* bubble_sort: outer loop variable
    j,                \* bubble_sort: inner loop variable
    swapped,          \* bubble_sort: the flag
    spc               \* position inside bubble_sort

calc_vars == <<stock_data, earnings_date, days_after, available_dates,
               pre_dates, post_dates, result, pc, event_in>>
batch_vars == <<earnings_dates, results, pos, ret, apc>>
sort_vars == <<data, arr, i, j, swapped, spc>>
vars == <<calc_vars, batch_vars, sort_vars>>

----------------------------------------------------------------------------
(* Bounds of the model.                                                    *)

\* calendar days of the date-resolution specification are 0..MaxDay
MaxDay == 8
\* calendar days of the priced specifications are 0..MaxPricedDay
MaxPricedDay == 5
\* largest number of bars of a priced series
MaxBars == 5
\* days_after ranges over 1..MaxDaysAfter in the single-call specifications
MaxDaysAfter == 2
\* the series of a batch trades on every day 0..MaxBatchDay
MaxBatchDay == 3
\* longest list of event dates handed to a batch
MaxListLen == 16
\* longest list handed to bubble_sort
MaxSortLen == 4
\* the lists handed to bubble_sort hold the integers -1..MaxSortValue
MaxSortValue == 1

----------------------------------------------------------------------------
(* Generic helpers.                                                        *)

Min(a, b) == IF a < b THEN a ELSE b

Last(s) == s[Len(s)]

Range(s) == {s[n] : n \in DOMAIN s}

RECURSIVE SortedSeq(_)
\* the elements of a finite set of integers, ascending
SortedSeq(S) ==
    IF S = {} THEN <<>>
    ELSE LET m == CHOOSE x \in S : \A y \in S : x <= y
         IN  <<m>> \o SortedSeq(S \ {m})

----------------------------------------------------------------------------
(* Numbers: numpy.float64 division and Python's round(x, 2).               *)

Fin(n) == [cls |-> "fin", val |-> n]
PosInf == [cls |-> "inf", val |-> 1]
NegInf == [cls |-> "inf", val |-> -1]
NaN == [cls |-> "nan", val |-> 0]

\* num / den rounded to the nearest integer, ties to the even one (den # 0)
RoundHalfEven(num, den) ==
    LET n == IF den < 0 THEN 0 - num ELSE num
        d == IF den < 0 THEN 0 - den ELSE den
        q == n \div d
        r == n % d
    IN  IF 2 * r < d THEN q
        ELSE IF 2 * r > d THEN q + 1
        ELSE IF q % 2 = 0 THEN q ELSE q + 1

\* round(price, 2): a price in 1/100 cent to cents
Round2(price) == RoundHalfEven(price, 100)

\* round((x - base) / base * 100, 2) on numpy.float64 operands
PctChange(x, base) ==
    IF base = 0
    THEN IF x - base > 0 THEN PosInf
         ELSE IF x - base < 0 THEN NegInf
         ELSE NaN
    ELSE Fin(RoundHalfEven((x - base) * 100 * 100, base))

----------------------------------------------------------------------------
(* Timestamps and the DataFrame.                                           *)

\* resolution of pd.Timestamp inside a calendar day: midnight and one later time
TicksPerDay == 2

\* pd.Timedelta / datetime.timedelta(days=n)
timedelta(n) == n * TicksPerDay

\* Timestamp.normalize(): midnight of the same day
normalize(t) == t - (t % TicksPerDay)

\* Timestamp.strftime('%Y-%m-%d'): the calendar day, the time of day dropped
strftime(t) == t \div TicksPerDay

\* DatetimeIndex.tz_localize(None): the wall-clock values kept, the timezone dropped
tz_localize(index) == [index EXCEPT !.tz = FALSE]

RECURSIVE date_range(_, _)
\* pd.date_range(start, end): daily frequency from start, end inclusive
date_range(start, end) ==
    IF start > end THEN <<>>
    ELSE <<start>> \o date_range(start + timedelta(1), end)

\* Index.intersection on two ascending indexes: the common values, ascending
intersection(values, other) ==
    SelectSeq(values, LAMBDA t : t \in Range(other))

\* position of label t in the index (labels are unique)
get_loc(sd, t) == CHOOSE n \in DOMAIN sd.index.values : sd.index.values[n] = t

\* stock_data.loc[t, column]
loc(sd, t) == sd.rows[get_loc(sd, t)]

\* stock_data.loc[a:b]: label slice of an ascending index, both ends inclusive
loc_slice(sd, a, b) ==
    LET keep == {n \in DOMAIN sd.index.values :
                    a <= sd.index.values[n] /\ sd.index.values[n] <= b}
    IN  [n \in 1..Cardinality(keep) |-> sd.rows[SortedSeq(keep)[n]]]

\* Series.max()
max(s) == CHOOSE x \in Range(s) : \A y \in Range(s) : y <= x

\* Series.min()
min(s) == CHOOSE x \in Range(s) : \A y \in Range(s) : x <= y

----------------------------------------------------------------------------
(* calculate_price_movement, calc_earnings.py lines 80-202.                *)

None == [kind |-> "None"]

\* lines 114-117: the event timestamp without timezone, at midnight
step1_earnings_date(ed) == normalize(ed)

\* lines 120-121: a timezone-aware index is replaced, in the caller's frame
step1_stock_data(sd) ==
    IF sd.index.tz THEN [sd EXCEPT !.index = tz_localize(sd.index)] ELSE sd

\* lines 126-132: the trading timestamps within [event - 5 days, event + 1 day]
step2_available_dates(sd, ed) ==
    intersection(sd.index.values,
                 date_range(ed - timedelta(5), ed + timedelta(1)))

\* a slip of line 137: available_dates[0], the earliest day of the window
step2_earnings_day_first(avail) == avail[1]

\* line 137: available_dates[-1]
step2_earnings_day(avail) == Last(avail)

\* a slip of line 141: <= for <, the event trading day taken as its own baseline
step3_pre_dates_inclusive(sd, day) == SelectSeq(sd.index.values, LAMBDA t : t <= day)

\* line 141: stock_data.index[stock_data.index < earnings_day]
step3_pre_dates(sd, day) == SelectSeq(sd.index.values, LAMBDA t : t < day)

\* a slip of line 144: pre_dates[0], the first bar of the series as the baseline
step3_pre_earnings_day_first(pre) == pre[1]

\* line 144: pre_dates[-1]
step3_pre_earnings_day(pre) == Last(pre)

\* line 147: stock_data.index[stock_data.index > earnings_day]
step3_post_dates(sd, day) == SelectSeq(sd.index.values, LAMBDA t : t > day)

RECURSIVE step6_loop(_, _, _, _, _, _)
\* lines 168-179: for day in range(1, stop), adding the keys of each day to acc
step6_loop(sd, post, pre_close, day, stop, acc) ==
    IF day >= stop THEN acc
    ELSE IF day <= Len(post)
    THEN LET future_close == loc(sd, post[day]).Close
             withpct == [acc EXCEPT !.change_pct =
                             Append(@, PctChange(future_close, pre_close))]
             withclose == IF day = 1
                          THEN [withpct EXCEPT !.day1_close = <<Round2(future_close)>>]
                          ELSE withpct
         IN  step6_loop(sd, post, pre_close, day + 1, stop, withclose)
    ELSE step6_loop(sd, post, pre_close, day + 1, stop, acc)

\* line 168: the stop of range(1, min(days_after + 1, len(post_dates) + 1))
step6_stop(da, post) == Min(da + 1, Len(post) + 1)

\* line 184: the condition under which the window extrema are computed
step7_guard(da, post) == Len(post) >= da

\* a slip of lines 185-187: the slice left open, to the end of the series
step7_period_data_tail(sd, day, post, da) == loc_slice(sd, day, Last(post))

\* lines 185-187: stock_data.loc[earnings_day:post_dates[days_after - 1]]
step7_period_data(sd, day, post, da) == loc_slice(sd, day, post[da])

\* lines 188-196: the four window fields
step7_window(period_data, pre_close) ==
    LET max_price == max([n \in DOMAIN period_data |-> period_data[n].High])
        min_price == min([n \in DOMAIN period_data |-> period_data[n].Low])
    IN  [max_price |-> Round2(max_price),
         min_price |-> Round2(min_price),
         max_gain  |-> PctChange(max_price, pre_close),
         max_loss  |-> PctChange(min_price, pre_close)]

\* lines 153-198: the dict returned once the three days are found.  Its keys:
\*   report_date '财报日期', trade_date '实际交易日', pre_close '财报前收盘价',
\*   day_close '财报日收盘价', day_pct '财报日涨跌幅(%)',
\*   change_pct[n] '第n日后涨跌幅(%)', day1_close '第1日后收盘价',
\*   window: '期间最高价', '期间最低价', '最大涨幅(%)', '最大跌幅(%)'.
\* An absent key is an empty sequence, a present one a sequence of one value.
step4_result(sd, ed, da, avail, pre, post) ==
    LET earnings_day == step2_earnings_day(avail)
        pre_earnings_day == step3_pre_earnings_day(pre)
        pre_close == loc(sd, pre_earnings_day).Close
        earnings_day_close == loc(sd, earnings_day).Close
        base == [kind        |-> "dict",
                 report_date |-> strftime(ed),
                 trade_date  |-> strftime(earnings_day),
                 pre_close   |-> Round2(pre_close),
                 day_close   |-> Round2(earnings_day_close),
                 day_pct     |-> PctChange(earnings_day_close, pre_close),
                 change_pct  |-> <<>>,
                 day1_close  |-> <<>>,
                 window      |-> <<>>]
        looped == step6_loop(sd, post, pre_close, 1, step6_stop(da, post), base)
    IN  IF step7_guard(da, post)
        THEN [looped EXCEPT !.window =
                 <<step7_window(step7_period_data(sd, earnings_day, post, da),
                                pre_close)>>]
        ELSE looped

\* the whole call: the value returned and the DataFrame as the call leaves it.
\* On the inputs modelled (an ascending duplicate-free index, numeric columns,
\* days_after >= 1) no statement of lines 111-198 raises: numpy.float64 divides
\* by zero to inf or nan.  The handler of lines 200-202 is therefore not entered.
calculate_price_movement(sd0, ed0, da) ==
    LET ed == step1_earnings_date(ed0)
        sd == step1_stock_data(sd0)
        avail == step2_available_dates(sd, ed)
        pre == step3_pre_dates(sd, step2_earnings_day(avail))
        post == step3_post_dates(sd, step2_earnings_day(avail))
    IN  [stock_data |-> sd,
         result |-> IF Len(avail) = 0 THEN None
                    ELSE IF Len(pre) = 0 THEN None
                    ELSE IF Len(post) = 0 THEN None
                    ELSE step4_result(sd, ed, da, avail, pre, post)]

\* lines 110-137: entry, up to the choice of the event trading day
Resolve ==
    /\ pc = "call"
    /\ earnings_date' = step1_earnings_date(earnings_date)
    /\ stock_data' = step1_stock_data(stock_data)
    /\ available_dates' = step2_available_dates(stock_data', earnings_date')
    /\ IF Len(available_dates') = 0
       THEN result' = None /\ pc' = "returned"
       ELSE result' = result /\ pc' = "resolved"
    /\ UNCHANGED <<days_after, pre_dates, post_dates, event_in>>
    /\ UNCHANGED <<batch_vars, sort_vars>>

\* lines 139-150: the trading days before and after the event trading day
Neighbours ==
    /\ pc = "resolved"
    /\ pre_dates' = step3_pre_dates(stock_data, step2_earnings_day(available_dates))
    /\ IF Len(pre_dates') = 0
       THEN /\ result' = None
            /\ pc' = "returned"
            /\ post_dates' = post_dates
       ELSE /\ post_dates' = step3_post_dates(stock_data,
                                              step2_earnings_day(available_dates))
            /\ IF Len(post_dates') = 0
               THEN result' = None /\ pc' = "returned"
               ELSE result' = result /\ pc' = "located"
    /\ UNCHANGED <<stock_data, earnings_date, days_after, available_dates, event_in>>
    /\ UNCHANGED <<batch_vars, sort_vars>>

\* lines 152-198: the prices, the returns and the window; return result
Compute ==
    /\ pc = "located"
    /\ result' = step4_result(stock_data, earnings_date, days_after,
                              available_dates, pre_dates, post_dates)
    /\ pc' = "returned"
    /\ UNCHANGED <<stock_data, earnings_date, days_after, available_dates,
                   pre_dates, post_dates, event_in>>
    /\ UNCHANGED <<batch_vars, sort_vars>>

CalcNext == Resolve \/ Neighbours \/ Compute

----------------------------------------------------------------------------
(* Inputs of a single call of calculate_price_movement.                    *)

\* the DataFrame with the given trading days (at midnight) and rows
DataFrame(days, rows, tz) ==
    [index |-> [values |-> [n \in DOMAIN days |-> days[n] * TicksPerDay],
                tz |-> tz],
     rows |-> rows]

\* every series on at most maxbars of the days 0..maxday, ascending and
\* duplicate-free, each bar one of `bars`
AllSeries(maxday, maxbars, bars, tzs) ==
    UNION { { DataFrame(SortedSeq(S), rows, tz) :
                rows \in [1..Cardinality(S) -> bars], tz \in tzs } :
            S \in {T \in SUBSET (0..maxday) : Cardinality(T) <= maxbars} }

\* every timestamp of the days 0..maxday, any time of day
Stamps(maxday) == 0..((maxday + 1) * TicksPerDay - 1)

\* bars with prices in 1/100 cent: 3.20, 3.30 and 3.2049 at the close
BarA == [Close |-> 32000, High |-> 34000, Low |-> 31000]
BarB == [Close |-> 33000, High |-> 33050, Low |-> 30000]
BarC == [Close |-> 32049, High |-> 36000, Low |-> 32000]
\* corrupted bars: a close of zero, a negative close
BarZ == [Close |-> 0, High |-> 100, Low |-> 0]
BarN == [Close |-> -100, High |-> 100, Low |-> -200]

CalcInit(series) ==
    /\ stock_data \in series
    /\ earnings_date \in Stamps(MaxDay)
    /\ event_in = earnings_date
    /\ days_after \in 1..MaxDaysAfter
    /\ available_dates = <<>>
    /\ pre_dates = <<>>
    /\ post_dates = <<>>
    /\ result = None
    /\ pc = "call"

BatchIdle ==
    /\ earnings_dates = <<>>
    /\ results = <<>>
    /\ pos = 0
    /\ ret = None
    /\ apc = "idle"

SortIdle ==
    /\ data = <<>>
    /\ arr = <<>>
    /\ i = 0
    /\ j = 0
    /\ swapped = FALSE
    /\ spc = "idle"

\* any set of trading days, timezone-aware or not, one kind of bar
InitDates ==
    /\ CalcInit(AllSeries(MaxDay, MaxDay + 1, {BarA}, BOOLEAN))
    /\ BatchIdle /\ SortIdle

\* priced series with positive prices
InitCalc ==
    /\ CalcInit(AllSeries(MaxPricedDay, MaxBars, {BarA, BarB, BarC}, {FALSE}))
    /\ BatchIdle /\ SortIdle

\* priced series that may hold a zero or a negative close
InitCorrupt ==
    /\ CalcInit(AllSeries(MaxPricedDay, MaxBars, {BarA, BarZ, BarN}, {FALSE}))
    /\ BatchIdle /\ SortIdle

SpecDates == InitDates /\ [][CalcNext]_vars
SpecCalc == InitCalc /\ [][CalcNext]_vars
SpecCorrupt == InitCorrupt /\ [][CalcNext]_vars

----------------------------------------------------------------------------
(* analyze_stock_earnings, calc_earnings.py lines 205-305.                 *)

\* line 250: the 15 of earnings_dates[:15]
MaxEarnings == 15
\* line 251: days_after=5
BatchDaysAfter == 5

\* line 250: earnings_dates[:15]
head15(dates) == SubSeq(dates, 1, Min(MaxEarnings, Len(dates)))

\* line 233: stock_data.empty
empty(sd) == Len(sd.index.values) = 0

\* a slip of lines 252-253: results = [result], the list overwritten
loop_body_overwrite(res, r) == IF r # None THEN <<r>> ELSE res

\* lines 252-253: if result: results.append(result)
loop_body(res, r) == IF r # None THEN Append(res, r) ELSE res

RECURSIVE sort_values(_)
\* line 259: df.sort_values('财报日期', ascending=False); rows of one date are equal
sort_values(rows) ==
    IF rows = <<>> THEN <<>>
    ELSE LET m == CHOOSE a \in DOMAIN rows :
                      \A b \in DOMAIN rows :
                          \/ rows[b].report_date < rows[a].report_date
                          \/ (rows[b].report_date = rows[a].report_date /\ a <= b)
             rest == [n \in 1..(Len(rows) - 1) |->
                          IF n < m THEN rows[n] ELSE rows[n + 1]]
         IN  <<rows[m]>> \o sort_values(rest)

\* lines 227-249: the data is fetched; none: return; else its timezone is dropped
AnalyzeStart ==
    /\ apc = "start"
    /\ IF empty(stock_data)
       THEN /\ apc' = "done"
            /\ ret' = None
            /\ stock_data' = stock_data
       ELSE /\ apc' = "loop"
            /\ ret' = ret
            /\ stock_data' = IF stock_data.index.tz
                             THEN [stock_data EXCEPT !.index = tz_localize(@)]
                             ELSE stock_data
    /\ results' = <<>>
    /\ pos' = 0
    /\ UNCHANGED <<earnings_date, days_after, available_dates, pre_dates,
                   post_dates, result, pc, event_in, earnings_dates>>
    /\ UNCHANGED sort_vars

\* lines 250-253: one iteration of the loop over earnings_dates[:15]
AnalyzeIterate ==
    /\ apc = "loop"
    /\ pos < Len(head15(earnings_dates))
    /\ LET call == calculate_price_movement(stock_data,
                                            head15(earnings_dates)[pos + 1],
                                            BatchDaysAfter)
       IN  /\ earnings_date' = head15(earnings_dates)[pos + 1]
           /\ stock_data' = call.stock_data
           /\ result' = call.result
           /\ results' = loop_body(results, call.result)
    /\ pos' = pos + 1
    /\ UNCHANGED <<days_after, available_dates, pre_dates, post_dates, pc,
                   event_in, earnings_dates, ret, apc>>
    /\ UNCHANGED sort_vars

\* lines 255-305: the loop is over; the sorted table, or None with no result
AnalyzeFinish ==
    /\ apc = "loop"
    /\ pos >= Len(head15(earnings_dates))
    /\ ret' = IF results # <<>>
              THEN [kind |-> "DataFrame", rows |-> sort_values(results)]
              ELSE None
    /\ apc' = "done"
    /\ UNCHANGED <<calc_vars, earnings_dates, results, pos>>
    /\ UNCHANGED sort_vars

BatchNext == AnalyzeStart \/ AnalyzeIterate \/ AnalyzeFinish

\* the series of a batch: none at all, or one bar a day, with or without timezone
BatchSeries ==
    {DataFrame(<<>>, <<>>, FALSE)} \cup
    {DataFrame(SortedSeq(0..MaxBatchDay), [n \in 1..(MaxBatchDay + 1) |-> BarA], tz) :
        tz \in BOOLEAN}

\* the lists of a batch: up to MaxListLen timestamps, all equal but at most one
BatchLists ==
    {[n \in 1..len |-> IF n = at THEN b ELSE a] :
        len \in 0..MaxListLen, at \in 0..MaxListLen,
        a \in Stamps(MaxBatchDay), b \in Stamps(MaxBatchDay)}

InitBatch ==
    /\ stock_data \in BatchSeries
    /\ earnings_dates \in BatchLists
    /\ results = <<>>
    /\ pos = 0
    /\ ret = None
    /\ apc = "start"
    /\ earnings_date = 0
    /\ event_in = 0
    /\ days_after = BatchDaysAfter
    /\ available_dates = <<>>
    /\ pre_dates = <<>>
    /\ post_dates = <<>>
    /\ result = None
    /\ pc = "idle"
    /\ SortIdle

SpecBatch == InitBatch /\ [][BatchNext]_vars

----------------------------------------------------------------------------
(* sort.py: bubble_sort (lines 1-11) and quick_sort (lines 14-28).         *)

\* a slip of line 5: range(0, n - i - 2), the last pair of a pass never compared
inner_stop_short(n, pass) == n - pass - 2

\* line 5: the stop of range(0, n - i - 1)
inner_stop(n, pass) == n - pass - 1

\* line 7: arr[j], arr[j + 1] = arr[j + 1], arr[j]   (a, b are 1-based here)
swap(s, a, b) == [s EXCEPT ![a] = s[b], ![b] = s[a]]

RECURSIVE quick_sort(_)
\* lines 14-28
quick_sort(s) ==
    IF Len(s) <= 1 THEN s
    ELSE LET pivot == s[(Len(s) \div 2) + 1]
             left == SelectSeq(s, LAMBDA x : x < pivot)
             middle == SelectSeq(s, LAMBDA x : x = pivot)
             right == SelectSeq(s, LAMBDA x : x > pivot)
         IN  quick_sort(left) \o middle \o quick_sort(right)

\* lines 3-4 and 11: the next pass starts, or range(n) is exhausted: return arr
Outer ==
    /\ spc = "outer"
    /\ IF i < Len(arr)
       THEN swapped' = FALSE /\ j' = 0 /\ spc' = "inner"
       ELSE swapped' = swapped /\ j' = j /\ spc' = "done"
    /\ UNCHANGED <<data, arr, i>>
    /\ UNCHANGED <<calc_vars, batch_vars>>

\* lines 5-8: one iteration of the inner loop
Inner ==
    /\ spc = "inner"
    /\ j < inner_stop(Len(arr), i)
    /\ IF arr[j + 1] > arr[j + 2]
       THEN arr' = swap(arr, j + 1, j + 2) /\ swapped' = TRUE
       ELSE arr' = arr /\ swapped' = swapped
    /\ j' = j + 1
    /\ UNCHANGED <<data, i, spc>>
    /\ UNCHANGED <<calc_vars, batch_vars>>

\* lines 9-11: the pass is over: break and return arr, or the next i
EndPass ==
    /\ spc = "inner"
    /\ j >= inner_stop(Len(arr), i)
    /\ IF ~swapped
       THEN spc' = "done" /\ i' = i
       ELSE spc' = "outer" /\ i' = i + 1
    /\ UNCHANGED <<data, arr, j, swapped>>
    /\ UNCHANGED <<calc_vars, batch_vars>>

SortNext == Outer \/ Inner \/ EndPass

\* every list of at most MaxSortLen integers of -1..MaxSortValue
SortLists == UNION {[1..len -> (-1)..MaxSortValue] : len \in 0..MaxSortLen}

InitSort ==
    /\ data \in SortLists
    /\ arr = data
    /\ i = 0
    /\ j = 0
    /\ swapped = FALSE
    /\ spc = "outer"
    /\ stock_data = DataFrame(<<>>, <<>>, FALSE)
    /\ earnings_date = 0
    /\ event_in = 0
    /\ days_after = 1
    /\ available_dates = <<>>
    /\ pre_dates = <<>>
    /\ post_dates = <<>>
    /\ result = None
    /\ pc = "idle"
    /\ BatchIdle

\* bubble_sort is straight-line code: a call that has started runs on
SpecSort == InitSort /\ [][SortNext]_vars /\ WF_vars(SortNext)

----------------------------------------------------------------------------
(* What the claims about calculate_price_movement speak of.                *)

SetMax(S) == CHOOSE x \in S : \A y \in S : y <= x
SetMin(S) == CHOOSE x \in S : \A y \in S : x <= y
Abs(x) == IF x < 0 THEN 0 - x ELSE x

\* the calendar days on which the series trades
TradingDays == {strftime(stock_data.index.values[n]) : n \in DOMAIN stock_data.index.values}
\* the calendar day of the event as passed in
EventDay == event_in \div TicksPerDay
\* the trading days within [event - 5 days, event + 1 day]
InWindow == {d \in TradingDays : EventDay - 5 <= d /\ d <= EventDay + 1}
\* the local earnings_day, once line 137 has run
earnings_day == step2_earnings_day(available_dates)
\* datetime.weekday() of a calendar day: Monday is 0; day 0 is a Thursday
Weekday(d) == (d + 3) % 7
\* v is num / den rounded to the nearest integer, ties to even
IsRounded(v, num, den) ==
    /\ 2 * Abs(v * den - num) <= Abs(den)
    /\ (2 * Abs(v * den - num) = Abs(den) => v % 2 = 0)
\* v is (x - base) / base * 100 rounded to 2 decimals, as IEEE arithmetic gives it
IsPct(v, x, base) ==
    IF base = 0
    THEN v = (IF x > 0 THEN PosInf ELSE IF x < 0 THEN NegInf ELSE NaN)
    ELSE v.cls = "fin" /\ IsRounded(v.val, (x - base) * 10000, base)
\* position in the series of the trading day a returned dict reports
ReportedPos ==
    CHOOSE n \in DOMAIN stock_data.index.values :
        strftime(stock_data.index.values[n]) = result.trade_date
Returned == pc = "returned" /\ result # None

C1_WitnessNone ==
    /\ pc = "returned" /\ result = None
    /\ TradingDays # {} /\ InWindow = {}

\* C2: an event date that is itself a trading date is resolved to itself.
C2_ExactMatchResolvesToItself ==
    (pc # "call" /\ EventDay \in TradingDays) =>
        /\ Len(available_dates) > 0
        /\ strftime(earnings_day) = EventDay

\* C3: on a weekdays-only series, a Saturday or Sunday event that follows a
\* Friday trading date is resolved to that Friday.
C3_WeekendResolvesToFriday ==
    LET friday == IF Weekday(EventDay) = 5 THEN EventDay - 1 ELSE EventDay - 2
    IN  ( /\ pc # "call"
          /\ \A d \in TradingDays : Weekday(d) < 5
          /\ Weekday(EventDay) \in {5, 6}
          /\ friday \in TradingDays ) =>
            /\ Len(available_dates) > 0
            /\ strftime(earnings_day) = friday

\* C4: once an event trading day is resolved in a series of positive closes,
\* the call returns None exactly when that day is the first or the last bar.
C4_NoneIffFirstOrLastBar ==
    ( /\ pc = "returned"
      /\ InWindow # {}
      /\ \A n \in DOMAIN stock_data.rows : stock_data.rows[n].Close > 0 ) =>
        ( result = None <=>
            \/ SetMax(InWindow) = SetMin(TradingDays)
            \/ SetMax(InWindow) = SetMax(TradingDays) )

C4_Witness ==
    /\ pc = "returned" /\ result = None
    /\ Cardinality(TradingDays) >= 3
    /\ InWindow # {}
    /\ SetMax(InWindow) = SetMax(TradingDays)

C4_WitnessDict ==
    /\ Returned
    /\ SetMax(InWindow) # SetMin(TradingDays)
    /\ SetMax(InWindow) # SetMax(TradingDays)

\* C5: in a returned dict the baseline is the close of the bar just before the
\* reported trading day, the event-day return and every forward return are
\* measured from that baseline and rounded to 2 decimals, and the forward
\* returns are keyed by exactly 1..min(days_after, number of later bars).
C5_ReturnsFromBaseline ==
    Returned =>
        LET n == ReportedPos
            rows == stock_data.rows
            b == rows[n - 1].Close
        IN  /\ n > 1
            /\ IsRounded(result.pre_close, b, 100)
            /\ IsRounded(result.day_close, rows[n].Close, 100)
            /\ IsPct(result.day_pct, rows[n].Close, b)
            /\ DOMAIN result.change_pct = 1..Min(days_after, Len(rows) - n)
            /\ \A k \in DOMAIN result.change_pct :
                   IsPct(result.change_pct[k], rows[n + k].Close, b)
            /\ result.day1_close # <<>>
            /\ IsRounded(result.day1_close[1], rows[n + 1].Close, 100)

C5_Witness ==
    /\ Returned
    /\ ReportedPos > 2
    /\ Len(result.change_pct) >= 2
    /\ result.change_pct[2] # result.change_pct[1]
    /\ stock_data.rows[1].Close # stock_data.rows[ReportedPos - 1].Close

\* C6: in a returned dict the window fields are present exactly when at least
\* days_after bars follow the reported trading day; the window high and low
\* are the extrema of High and Low over the bars from that day through the
\* days_after-th later bar, and the gain and loss are those prices measured
\* from the baseline close.
C6_WindowExtrema ==
    Returned =>
        LET n == ReportedPos
            rows == stock_data.rows
            b == rows[n - 1].Close
            span == n..(n + days_after)
        IN  /\ (result.window # <<>>) <=> (Len(rows) - n >= days_after)
            /\ result.window # <<>> =>
                 LET w == result.window[1]
                     hi == SetMax({rows[m].High : m \in span})
                     lo == SetMin({rows[m].Low : m \in span})
                 IN  /\ IsRounded(w.max_price, hi, 100)
                     /\ IsRounded(w.min_price, lo, 100)
                     /\ IsPct(w.max_gain, hi, b)
                     /\ IsPct(w.max_loss, lo, b)

C6_Witness ==
    /\ Returned
    /\ result.window # <<>>
    /\ days_after >= 2
    /\ Len(stock_data.rows) > ReportedPos + days_after
    /\ stock_data.rows[ReportedPos - 1].High > result.window[1].max_price * 100
    /\ stock_data.rows[Len(stock_data.rows)].Low < result.window[1].min_price * 100 - 100

C6_WitnessAbsent ==
    /\ Returned
    /\ result.window = <<>>
    /\ Len(result.change_pct) = 1
    /\ days_after = 2

\* C8: with a zero or negative baseline close the call never returns a dict
\* of returns computed from that baseline.
C8_NonPositiveBaselineRejected ==
    LET n == CHOOSE m \in DOMAIN stock_data.index.values :
                 strftime(stock_data.index.values[m]) = SetMax(InWindow)
    IN  ( /\ pc = "returned"
          /\ InWindow # {}
          /\ n > 1
          /\ stock_data.rows[n - 1].Close <= 0 ) =>
            result.kind # "dict"

\* C9: no step of the call changes the series it was given.
C9_SeriesUnchanged == [][stock_data' = stock_data]_vars

----------------------------------------------------------------------------
(* What the claims about analyze_stock_earnings and sort.py speak of.      *)

\* the dicts of the non-None calls on dates[1..upto], in the order of the list
Collected(dates, upto) ==
    SelectSeq([n \in 1..upto |->
                  calculate_price_movement(stock_data, dates[n], BatchDaysAfter).result],
              LAMBDA r : r # None)
\* rows is seq reordered
IsPermutation(rows, seq) ==
    /\ Len(rows) = Len(seq)
    /\ \A x \in Range(rows) \cup Range(seq) :
           Cardinality({n \in DOMAIN rows : rows[n] = x})
               = Cardinality({n \in DOMAIN seq : seq[n] = x})
\* what a batch over the first `upto` dates of the list has to return
BatchOutcome(upto) ==
    /\ empty(stock_data) => ret = None
    /\ ~empty(stock_data) => results = Collected(earnings_dates, upto)
    /\ (ret = None) <=> (Collected(earnings_dates, upto) = <<>>)
    /\ ret # None => IsPermutation(ret.rows, Collected(earnings_dates, upto))

\* C7 (as claimed): the batch returns one result per date of the whole list on
\* which the call returns non-None, and None only when no date yields one.
C7_OneResultPerDate ==
    apc = "done" => BatchOutcome(Len(earnings_dates))

\* C7 (amended): the same, of the first 15 dates of the list; while the loop
\* runs, results holds the dicts of the dates done so far, a None skipped.
C7_OneResultPerDateOfFirst15 ==
    /\ apc = "loop" =>
           /\ pos <= Min(MaxEarnings, Len(earnings_dates))
           /\ results = Collected(earnings_dates, pos)
    /\ apc = "done" => BatchOutcome(Min(MaxEarnings, Len(earnings_dates)))

C7_Witness ==
    /\ apc = "done"
    /\ Len(earnings_dates) > MaxEarnings
    /\ ret # None
    /\ \E m \in 1..MaxEarnings : \E n \in (m + 1)..MaxEarnings :
           /\ calculate_price_movement(stock_data, earnings_dates[m],
                                       BatchDaysAfter).result = None
           /\ calculate_price_movement(stock_data, earnings_dates[n],
                                       BatchDaysAfter).result # None
    /\ Len(ret.rows) = MaxEarnings - 1

IsSorted(s) == \A n \in 1..(Len(s) - 1) : s[n] <= s[n + 1]

\* C10: bubble_sort terminates, and what it returns is non-decreasing, a
\* permutation of its input, and the sequence quick_sort returns for that input.
C10_BubbleSortSorts ==
    /\ <>(spc = "done")
    /\ [](spc = "done" =>
            /\ IsSorted(arr)
            /\ IsPermutation(arr, data)
            /\ arr = quick_sort(data))

C10_Witness ==
    /\ spc = "done"
    /\ i >= 1
    /\ ~swapped
    /\ Len(data) = MaxSortLen
    /\ \E m \in DOMAIN data : \E n \in DOMAIN data : m # n /\ data[m] = data[n]
    /\ arr # data

====
